---- MODULE Spec2Model ----
(***************************************************************************)
(* Model of the leveled logging package of kobyt2/common-services.         *)
(*                                                                         *)
(* The repository holds three copies of package logger:                    *)
(*   "logger_go"  src/logger/logger.go    fixed-name files, os.OpenFile    *)
(*   "part_001"   src/unnamed/part_001    lumberjack writers, facade       *)
(*   "part_002"   src/unnamed/part_002    + default fallback, GormLogger   *)
(* The variable `variant` says which copy the process was built from.      *)
(*                                                                         *)
(* zap, viper, lumberjack and gorm are libraries; their behaviour is       *)
(* modelled at the call sites of the package (zap's Tee core, its          *)
(* level check, its write-then-panic / write-then-exit hooks, viper's      *)
(* read and decode errors, lumberjack's Write: its mutex, its lazy file    *)
(* creation, its size check and its rotation).  Lengths of entries and     *)
(* sizes of files are counted in a unit of which `megabyte` make one MB.   *)
(* lumberjack's removal of old backups (MaxBackups, MaxAge) and their      *)
(* compression keep the active file as it is and are left out.             *)
(* The file system does not fail a write to a sink.  Threads interleave    *)
(* at the steps of lumberjack's Write and at the two assignments that end  *)
(* InitLogger; every read sees the last value written (the package takes   *)
(* no lock around Logger and SugaredLogger, so a build may also show a     *)
(* thread an earlier value).  The source does not fix the Go               *)
(* language version, so both semantics of the range-loop variable that     *)
(* setupCores closes over are behaviours of the model.                     *)
(***************************************************************************)
EXTENDS Integers, Sequences, FiniteSets, TLC

VARIABLES
    variant,        \* which copy of package logger is built
    loopvarShared,  \* range-loop variable semantics of the build (Go < 1.22: shared)
    now,            \* wall clock, in hours (time.Now().Format("2006010215"))
    dirs,           \* directories that exist on disk
    files,          \* log files on disk: file -> sequence of entries
    backups,        \* the files rotated away from a name, oldest first
    lumber,         \* the open file and the size of each lumberjack.Logger
    loggers,        \* the zap.Logger objects built so far (the heap)
    Logger,         \* package variable Logger *zap.Logger
    SugaredLogger,  \* package variable SugaredLogger *zap.SugaredLogger
    gormLogger,     \* the GormLogger value held by the persistence layer
    lastCall,       \* the last call made into the package and what it did
    alive,          \* FALSE once the process has exited
    pc,             \* where each thread is inside the call it is making
    mu,             \* the lumberjack.Logger objects whose mutex is held
    overlapped      \* history: two InitLogger calls have run at the same time

vars == <<variant, loopvarShared, now, dirs, files, backups, lumber, loggers,
          Logger, SugaredLogger, gormLogger, lastCall, alive, pc, mu,
          overlapped>>

\* the state of the threads that are inside a call
threads == <<pc, mu, overlapped>>

\* the threads of the application that call into the package at the same
\* time
Threads == {"t1", "t2"}

\* a thread that is in no call
Idle == [at |-> "idle"]

----------------------------------------------------------------------------
(* Bounds of the model.                                                    *)

\* successful InitLogger calls in one run
MaxInit == 1
\* entries written to the sinks in one run
MaxEntries == 1
\* hours the clock advances in one run
MaxHour == 1
\* successful InitLogger calls in one run in which the sinks rotate
MaxReInit == 2
\* entries written in one run in which the sinks rotate
MaxRotateEntries == 3
\* units of length in lumberjack's megabyte
megabyte == 3
\* entries written in one run by threads that write at the same time
MaxConcEntries == 2

----------------------------------------------------------------------------
(* zapcore levels.                                                         *)

DebugLevel == -1
InfoLevel == 0
WarnLevel == 1
ErrorLevel == 2
DPanicLevel == 3
PanicLevel == 4
FatalLevel == 5

\* levels := []zapcore.Level{...} in setupCores
levels == <<DebugLevel, InfoLevel, WarnLevel, ErrorLevel, DPanicLevel,
            PanicLevel, FatalLevel>>

Levels == {levels[i] : i \in 1..Len(levels)}

\* zapcore.Level.String()
LevelString(level) ==
    CASE level = DebugLevel  -> "debug"
      [] level = InfoLevel   -> "info"
      [] level = WarnLevel   -> "warn"
      [] level = ErrorLevel  -> "error"
      [] level = DPanicLevel -> "dpanic"
      [] level = PanicLevel  -> "panic"
      [] level = FatalLevel  -> "fatal"

----------------------------------------------------------------------------
(* Configuration.                                                          *)

Variants == {"logger_go", "part_001", "part_002"}

\* the zero value of ZapConfig (a config file without a "zap" key decodes to it)
ZeroConfig ==
    [Level |-> "", Prefix |-> "", Format |-> "", Director |-> "",
     EncodeLevel |-> "", StacktraceKey |-> "", ShowLine |-> FALSE,
     LogInConsole |-> FALSE, RetentionDay |-> 0, CustomLevelEncoder |-> FALSE]

getDefaultConfig ==
    [Level |-> "info", Prefix |-> "[LOGGER]", Format |-> "json",
     Director |-> "./logs", EncodeLevel |-> "capital",
     StacktraceKey |-> "stacktrace", ShowLine |-> TRUE,
     LogInConsole |-> TRUE, RetentionDay |-> 7, CustomLevelEncoder |-> FALSE]

\* a settings record a present, well-formed config file decodes to
AppConfig ==
    [Level |-> "debug", Prefix |-> "[APP]", Format |-> "console",
     Director |-> "./applogs", EncodeLevel |-> "lowercase",
     StacktraceKey |-> "stack", ShowLine |-> FALSE,
     LogInConsole |-> FALSE, RetentionDay |-> 3, CustomLevelEncoder |-> TRUE]

\* the config files InitLogger is called with: absent or unreadable, present
\* but not parseable, parseable but not decodable into ZapConfig, well-formed
ConfigFiles ==
    {[state |-> "missing", zap |-> ZeroConfig],
     [state |-> "unparseable", zap |-> ZeroConfig],
     [state |-> "undecodable", zap |-> ZeroConfig],
     [state |-> "ok", zap |-> ZeroConfig],
     [state |-> "ok", zap |-> AppConfig]}

\* viper.ReadInConfig(): TRUE when it returns an error (the file cannot be
\* read, or its content cannot be parsed)
ReadInConfig(configFile) == configFile.state \in {"missing", "unparseable"}

\* viper.UnmarshalKey("zap", &zapConfig)
UnmarshalKey(configFile) ==
    [err |-> configFile.state = "undecodable", zapConfig |-> configFile.zap]

\* ZapConfig.LevelEncoder
LevelEncoder(c) ==
    IF c.CustomLevelEncoder THEN "bracketCapital"
    ELSE CASE c.EncodeLevel = "lowercase"      -> "lowercase"
           [] c.EncodeLevel = "capital"        -> "capital"
           [] c.EncodeLevel = "lowercaseColor" -> "lowercaseColor"
           [] c.EncodeLevel = "capitalColor"   -> "capitalColor"
           [] OTHER                            -> "capital"

\* ZapConfig.EncoderConfig
EncoderConfig(c) ==
    [TimeKey |-> "time", LevelKey |-> "level", NameKey |-> "logger",
     CallerKey |-> "caller", MessageKey |-> "msg",
     StacktraceKey |-> c.StacktraceKey, EncodeLevel |-> LevelEncoder(c)]

----------------------------------------------------------------------------
(* The file system as the package sees it.                                 *)

\* PathExists(path): the ok result (the error is discarded by InitLogger)
PathExists(path, ds, statErr) == path \in ds /\ ~statErr

\* os.Mkdir(path): TRUE when it succeeds
Mkdir(path, ds, statErr, mkdirOk) ==
    path # "" /\ path \notin ds /\ ~statErr /\ mkdirOk

\* the time-stamp part of a file name: none in the fixed-name copy
NoStamp == <<>>

\* getLogWriter: the writer of one level's sink.  logger_go opens (and
\* creates) the file at once and may fail; the other copies build a
\* lumberjack.Logger, which touches the disk only at its first write.
getLogWriter(cfg, level, openOk) ==
    IF variant = "logger_go"
    THEN [err |-> ~openOk,
          writer |-> [kind |-> "file",
                      Filename |-> [dir |-> cfg.Director, name |-> level,
                                    stamp |-> NoStamp],
                      MaxSize |-> 0, MaxBackups |-> 0, MaxAge |-> 0,
                      Compress |-> FALSE]]
    ELSE [err |-> FALSE,
          writer |-> [kind |-> "lumberjack",
                      Filename |-> [dir |-> cfg.Director, name |-> level,
                                    stamp |-> <<now>>],
                      MaxSize |-> 1, MaxBackups |-> 24,
                      MaxAge |-> cfg.RetentionDay, Compress |-> TRUE]]

\* The value the closure func(lvl) bool { return lvl == level } reads from
\* `level` when zap calls it, which is after the loop of setupCores has
\* ended: its own iteration's value when every iteration has its own
\* variable, the last element of levels when the loop has one variable.
CapturedLevel(i) ==
    IF loopvarShared THEN levels[Len(levels)] ELSE levels[i]

\* the loop of setupCores; openFailAt is the iteration whose getLogWriter
\* fails (0: none)
RECURSIVE setupCoresLoop(_, _, _, _)
setupCoresLoop(cfg, i, cores, openFailAt) ==
    IF i > Len(levels)
    THEN [err |-> FALSE, cores |-> cores, opened |-> cores]
    ELSE LET w == getLogWriter(cfg, LevelString(levels[i]), i # openFailAt)
             core == [enc |-> [format |-> IF cfg.Format = "json"
                                          THEN "json" ELSE "console",
                               config |-> EncoderConfig(cfg)],
                      out |-> w.writer,
                      level |-> CapturedLevel(i)]
         IN  IF w.err
             THEN [err |-> TRUE, cores |-> <<>>, opened |-> cores]
             ELSE setupCoresLoop(cfg, i + 1, Append(cores, core), openFailAt)

setupCores(cfg, openFailAt) == setupCoresLoop(cfg, 1, <<>>, openFailAt)

----------------------------------------------------------------------------
(* The package variables and InitLogger.                                   *)

\* A pointer is <<>> (nil) or <<x>>: a *zap.Logger <<n>> points to
\* loggers[n], a *zap.SugaredLogger <<[base |-> n]>> wraps loggers[n].
nil == <<>>

\* zap.New(zapcore.NewTee(cores...), zap.AddCaller(), zap.AddCallerSkip(skip))
NewLogger(cores, skip) ==
    [core |-> cores, addCaller |-> TRUE, callerSkip |-> skip,
     development |-> FALSE]

\* (*zap.Logger).Sugar() of a non-nil logger
Sugar(l) == <<[base |-> l[1]]>>

\* the zap.Logger a sugared logger writes through
Base(s) == loggers[s[1].base]

\* the files os.OpenFile has created for the writers in `cores`
OpenedFiles(cores) ==
    {cores[i].out.Filename :
        i \in {j \in 1..Len(cores) : cores[j].out.kind = "file"}}

CreateFiles(fs, new) ==
    [f \in DOMAIN fs \cup new |-> IF f \in DOMAIN fs THEN fs[f] ELSE <<>>]

\* InitLogger installing whatever cores setupCores had built when it failed
InitInstall_Partial(cfg, ds, skip, wrap, openFailAt) ==
    LET sc == setupCores(cfg, openFailAt)
        fs == CreateFiles(files, OpenedFiles(sc.opened))
        l == <<Len(loggers) + 1>>
    IN  [err |-> IF sc.err THEN wrap ELSE "nil",
         loggers |-> Append(loggers, NewLogger(sc.opened, skip)),
         Logger |-> l, SugaredLogger |-> Sugar(l),
         dirs |-> ds, files |-> fs]

\* the tail of InitLogger shared by its branches: setupCores, then install
InitInstall(cfg, ds, skip, wrap, openFailAt) ==
    LET sc == setupCores(cfg, openFailAt)
        fs == CreateFiles(files, OpenedFiles(sc.opened))
    IN  IF sc.err
        THEN [err |-> wrap, loggers |-> loggers, Logger |-> Logger,
              SugaredLogger |-> SugaredLogger, dirs |-> ds, files |-> fs]
        ELSE LET l == <<Len(loggers) + 1>>
             IN  [err |-> "nil",
                  loggers |-> Append(loggers, NewLogger(sc.cores, skip)),
                  Logger |-> l, SugaredLogger |-> Sugar(l),
                  dirs |-> ds, files |-> fs]

\* InitLogger after a config file was read: decode, make the directory,
\* set up the cores, install
InitFromFile(configFile, statErr, mkdirOk, openFailAt) ==
    LET u == UnmarshalKey(configFile)
        dir == u.zapConfig.Director
        ok == PathExists(dir, dirs, statErr)
        made == ~ok /\ Mkdir(dir, dirs, statErr, mkdirOk)
        unchanged(e) == [err |-> e, loggers |-> loggers, Logger |-> Logger,
                         SugaredLogger |-> SugaredLogger,
                         dirs |-> dirs, files |-> files]
    IN  IF u.err THEN unchanged("error unmarshalling config to struct")
        ELSE IF ~ok /\ ~made THEN unchanged("failed to create directory")
        ELSE InitInstall(u.zapConfig,
                         IF made THEN dirs \cup {dir} ELSE dirs,
                         IF variant = "part_002" THEN 1 ELSE 0,
                         IF variant = "part_002"
                         THEN "failed to set up cores with provided config"
                         ELSE "failed to create log file",
                         openFailAt)

\* InitLogger(configFile): what it returns and what it leaves behind
InitLoggerCall(configFile, statErr, mkdirOk, openFailAt) ==
    IF ReadInConfig(configFile)
    THEN IF variant = "part_002"
         THEN InitInstall(getDefaultConfig, dirs, 0,
                          "failed to set up cores with default config",
                          openFailAt)
         ELSE [err |-> "error reading config file", loggers |-> loggers,
               Logger |-> Logger, SugaredLogger |-> SugaredLogger,
               dirs |-> dirs, files |-> files]
    ELSE InitFromFile(configFile, statErr, mkdirOk, openFailAt)

NoFile == [dir |-> "", name |-> "", stamp |-> <<>>]

Event(kind, level, file) == [kind |-> kind, level |-> level, file |-> file]

\* the record of a call: the function, its arguments (the level; for Trace
\* the elapsed time and err; for InitLogger the state of the config file),
\* how it ended ("nil" or the error returned, "return", "panic", "exit")
\* and what it did, in order
Call(op, level, elapsed, arg, ret, events) ==
    [op |-> op, level |-> level, elapsed |-> elapsed, arg |-> arg,
     ret |-> ret, events |-> events]

\* the iterations of setupCores at which opening the file can fail (0: it
\* does not fail); building a lumberjack.Logger cannot fail
OpenFailures == IF variant = "logger_go" THEN 0..Len(levels) ELSE {0}

\* InitLogger called while fewer than maxInit calls have succeeded
InitLoggerUpTo(maxInit) ==
    /\ alive
    /\ \E configFile \in ConfigFiles, statErr \in BOOLEAN, mkdirOk \in BOOLEAN,
          openFailAt \in OpenFailures :
          LET r == InitLoggerCall(configFile, statErr, mkdirOk, openFailAt)
          IN  /\ Len(r.loggers) <= maxInit
              /\ loggers' = r.loggers
              /\ Logger' = r.Logger
              /\ SugaredLogger' = r.SugaredLogger
              /\ dirs' = r.dirs
              /\ files' = r.files
              /\ lastCall' = Call("InitLogger", 0, 0, configFile.state,
                                  r.err, <<>>)
    /\ UNCHANGED <<variant, loopvarShared, now, backups, lumber, gormLogger,
                   alive>>
    /\ UNCHANGED threads

InitLogger == InitLoggerUpTo(MaxInit)

----------------------------------------------------------------------------
(* Writing through zap.                                                    *)

\* zap.LevelEnablerFunc(func(lvl) bool { return lvl == level }) of one core
CoreEnabled(core, lvl) == lvl = core.level

\* multiCore.Enabled of zapcore.NewTee(cores...)
TeeEnabled(cores, lvl) == \E i \in 1..Len(cores) : CoreEnabled(cores[i], lvl)

\* multiCore.Check: the cores that add themselves to the checked entry
TeeCheck(cores, lvl) == SelectSeq(cores, LAMBDA c : CoreEnabled(c, lvl))

\* what zap does after the entry was written to the cores
\* (zapcore.WriteThenPanic, zapcore.WriteThenFatal; DPanic panics only in
\* a development logger, which zap.New does not build)
AfterWrite(lvl) ==
    CASE lvl = PanicLevel -> "panic"
      [] lvl = FatalLevel -> "exit"
      [] OTHER            -> "return"

\* (*SugaredLogger).log on a non-nil logger: the level check, the writes to
\* every accepting core in order, then the terminal hook
SugaredLog(s, lvl) ==
    IF lvl < DPanicLevel /\ ~TeeEnabled(Base(s).core, lvl)
    THEN [ret |-> "return", events |-> <<>>]
    ELSE LET acc == TeeCheck(Base(s).core, lvl)
             writes == [i \in 1..Len(acc) |->
                           Event("write", lvl, acc[i].out.Filename)]
             after == AfterWrite(lvl)
         IN  [ret |-> after,
              events |-> IF after = "return" THEN writes
                         ELSE Append(writes, Event(after, lvl, NoFile))]

\* the writer getLogWriter built for `file` in logger n (a write that does
\* not go through a logger of InitLogger goes to a plain file)
SinkOf(n, file) ==
    LET cs == IF n \in 1..Len(loggers) THEN loggers[n].core ELSE <<>>
        at == {i \in 1..Len(cs) : cs[i].out.Filename = file}
    IN  IF at = {} THEN [kind |-> "file", Filename |-> file]
        ELSE cs[CHOOSE i \in at : TRUE].out

\* (*lumberjack.Logger).max(): MaxSize is in megabytes
max(w) == w.MaxSize * megabyte

\* the size of a file: the sum of the lengths of its entries
RECURSIVE Size(_)
Size(content) ==
    IF content = <<>> THEN 0 ELSE Head(content).size + Size(Tail(content))

\* the disk and the lumberjack.Logger objects, as a write finds them
Disk == [files |-> files, backups |-> backups, lumber |-> lumber]

Backups(st, f) == IF f \in DOMAIN st.backups THEN st.backups[f] ELSE <<>>

\* the file a lumberjack.Logger has open is the one at its name when no
\* rotation has renamed it since, else it is one of the backups
IsActive(st, key) == st.lumber[key].gen = Len(Backups(st, key.file))

\* lumberjack openNew: the file at the name, if any, is renamed to a
\* backup; a new empty file is created at the name and opened
openNew(st, key) ==
    LET f == key.file
        bk == IF f \in DOMAIN st.files
              THEN Append(Backups(st, f), st.files[f]) ELSE Backups(st, f)
    IN  [files |-> [x \in DOMAIN st.files \cup {f} |->
                       IF x = f THEN <<>> ELSE st.files[x]],
         backups |-> [x \in DOMAIN st.backups \cup {f} |->
                         IF x = f THEN bk ELSE st.backups[x]],
         lumber |-> [k \in DOMAIN st.lumber \cup {key} |->
                        IF k = key THEN [gen |-> Len(bk), size |-> 0]
                        ELSE st.lumber[k]]]

\* lumberjack rotate: close the open file, then openNew
rotate(st, key) == openNew(st, key)

\* lumberjack openExistingOrNew(writeLen), at the first write of a Logger
openExistingOrNew(st, key, w, len) ==
    LET f == key.file
    IN  IF f \notin DOMAIN st.files THEN openNew(st, key)
        ELSE IF Size(st.files[f]) + len >= max(w) THEN rotate(st, key)
        ELSE [st EXCEPT !.lumber =
                 [k \in DOMAIN st.lumber \cup {key} |->
                     IF k = key
                     THEN [gen |-> Len(Backups(st, f)),
                           size |-> Size(st.files[f])]
                     ELSE st.lumber[k]]]

\* the part of lumberjack Write ahead of the write to the file: open the
\* file if it is not open, rotate if the entry does not fit
Prepare(st, key, w, len) ==
    LET o == IF key \in DOMAIN st.lumber THEN st
             ELSE openExistingOrNew(st, key, w, len)
    IN  IF o.lumber[key].size + len > max(w) THEN rotate(o, key) ELSE o

\* n, err = l.file.Write(p); l.size += int64(n)
FileWrite(st, key, entry) ==
    LET f == key.file
        g == st.lumber[key].gen
    IN  [files |-> IF IsActive(st, key)
                   THEN [st.files EXCEPT ![f] = Append(@, entry)]
                   ELSE st.files,
         backups |-> IF IsActive(st, key) THEN st.backups
                     ELSE [st.backups EXCEPT ![f][g + 1] = Append(@, entry)],
         lumber |-> [st.lumber EXCEPT ![key].size = @ + entry.size]]

\* (*lumberjack.Logger).Write(p), under l.mu: an entry longer than the
\* maximum file size is refused
lumberjackWrite(st, key, w, entry) ==
    IF entry.size > max(w) THEN st
    ELSE FileWrite(Prepare(st, key, w, entry.size), key, entry)

\* (*os.File).Write on a file opened with O_APPEND
osFileWrite(st, f, entry) ==
    [st EXCEPT !.files = [x \in DOMAIN st.files \cup {f} |->
                             IF x = f
                             THEN Append(IF f \in DOMAIN st.files
                                         THEN st.files[f] ELSE <<>>, entry)
                             ELSE st.files[x]]]

\* the write of one entry to the sink of logger n at `file`
SinkWrite(st, n, file, entry) ==
    LET w == SinkOf(n, file)
    IN  IF w.kind = "lumberjack"
        THEN lumberjackWrite(st, [logger |-> n, file |-> file], w, entry)
        ELSE osFileWrite(st, file, entry)

\* the writes among the events of a call through logger n, in order; the
\* encoded entry has length len
RECURSIVE ApplyWrites(_, _, _, _)
ApplyWrites(st, n, events, len) ==
    IF events = <<>> THEN st
    ELSE LET e == Head(events)
             st1 == IF e.kind # "write" THEN st
                    ELSE SinkWrite(st, n, e.file,
                                   [level |-> e.level, size |-> len])
         IN  ApplyWrites(st1, n, Tail(events), len)

RECURSIVE TotalEntries(_, _)
TotalEntries(fs, todo) ==
    IF todo = {} THEN 0
    ELSE LET f == CHOOSE x \in todo : TRUE
         IN  Len(fs[f]) + TotalEntries(fs, todo \ {f})

RECURSIVE TotalBackupEntries(_, _)
TotalBackupEntries(bs, todo) ==
    IF todo = {} THEN 0
    ELSE LET f == CHOOSE x \in todo : TRUE
         IN  TotalEntries(bs[f], DOMAIN bs[f])
                 + TotalBackupEntries(bs, todo \ {f})

\* the entries on disk
Written ==
    TotalEntries(files, DOMAIN files) + TotalBackupEntries(backups, DOMAIN backups)

WriteBudget == Written < MaxEntries

\* the effect of a call through logger n that ended `ret` after `events`,
\* with an encoded entry of length len, on the disk and on the process: a
\* panic unwinds the caller, who may recover; exit ends it.  lumberjack
\* makes the directory of a file it creates.
Effects(n, ret, events, len) ==
    /\ LET st == ApplyWrites(Disk, n, events, len)
       IN  /\ files' = st.files
           /\ backups' = st.backups
           /\ lumber' = st.lumber
           /\ dirs' = dirs \cup {f.dir : f \in DOMAIN st.files}
    /\ CASE ret = "exit"  -> alive' = FALSE
         [] ret = "panic" -> alive' \in BOOLEAN
         [] OTHER         -> alive' = TRUE

----------------------------------------------------------------------------
(* The facade: Debug ... Fatalf of part_001 and part_002.                  *)

\* a facade that writes to a default file when no logger is installed
FacadeCall_DefaultFile(lvl) ==
    IF SugaredLogger = nil
    THEN [ret |-> "return",
          events |-> <<Event("write", lvl,
                             [dir |-> getDefaultConfig.Director,
                              name |-> LevelString(lvl), stamp |-> <<now>>])>>]
    ELSE SugaredLog(SugaredLogger, lvl)

\* func X(args...) { SugaredLogger.X(args...) }: a nil SugaredLogger is
\* dereferenced by the method, which panics
FacadeCall(lvl) ==
    IF SugaredLogger = nil
    THEN [ret |-> "panic", events |-> <<Event("nilDeref", lvl, NoFile)>>]
    ELSE SugaredLog(SugaredLogger, lvl)

\* the index in `loggers` of the logger a sugared logger wraps (0: nil)
BaseOf(s) == IF s = nil THEN 0 ELSE s[1].base

\* a facade function called with a message whose entry has length len,
\* while fewer than `budget` entries are on disk
LeveledWriteOf(op, lvl, len, budget) ==
    /\ alive
    /\ variant # "logger_go"
    /\ Written < budget
    /\ LET r == FacadeCall(lvl)
       IN  /\ lastCall' = Call(op, lvl, 0, "nil", r.ret, r.events)
           /\ Effects(BaseOf(SugaredLogger), r.ret, r.events, len)
    /\ UNCHANGED <<variant, loopvarShared, now, loggers, Logger, SugaredLogger,
                   gormLogger>>
    /\ UNCHANGED threads

\* a facade function called with a message of one unit
LeveledWrite(op, lvl) == LeveledWriteOf(op, lvl, 1, MaxEntries)

Debug == LeveledWrite("Debug", DebugLevel)
Debugf == LeveledWrite("Debugf", DebugLevel)
Info == LeveledWrite("Info", InfoLevel)
Infof == LeveledWrite("Infof", InfoLevel)
Warn == LeveledWrite("Warn", WarnLevel)
Warnf == LeveledWrite("Warnf", WarnLevel)
Error == LeveledWrite("Error", ErrorLevel)
Errorf == LeveledWrite("Errorf", ErrorLevel)
DPanic == LeveledWrite("DPanic", DPanicLevel)
DPanicf == LeveledWrite("DPanicf", DPanicLevel)
Panic == LeveledWrite("Panic", PanicLevel)
Panicf == LeveledWrite("Panicf", PanicLevel)
Fatal == LeveledWrite("Fatal", FatalLevel)
Fatalf == LeveledWrite("Fatalf", FatalLevel)

\* GetLogger of logger_go
GetLogger ==
    /\ alive
    /\ variant = "logger_go"
    /\ lastCall' = Call("GetLogger", 0, 0, "nil",
                        IF SugaredLogger = nil THEN "nil" ELSE "handle", <<>>)
    /\ UNCHANGED <<variant, loopvarShared, now, dirs, files, backups, lumber, loggers, Logger,
                   SugaredLogger, gormLogger, alive>>
    /\ UNCHANGED threads

----------------------------------------------------------------------------
(* GormLogger, the persistence layer's trace hook (part_002).              *)

\* gorm.io/gorm/logger LogLevel
logger_Silent == 1
logger_Error == 2
logger_Warn == 3
logger_Info == 4

LogLevels == 0..logger_Info

\* 200 * time.Millisecond, in milliseconds
DefaultSlowThreshold == 200

\* durations, in milliseconds, of the traced queries and of the thresholds
Elapsed == {50, 200, 300}
SlowThresholds == {0, DefaultSlowThreshold}

\* the err argument of Trace
Errs == {"nil", "ErrRecordNotFound", "other"}

\* NewGormLogger(zapLogger) for a non-nil zapLogger
NewGormLoggerValue(zapLogger) ==
    [zapLogger |-> zapLogger,
     config |-> [SlowThreshold |-> DefaultSlowThreshold,
                 LogLevel |-> logger_Warn,
                 IgnoreRecordNotFoundError |-> FALSE,
                 Colorful |-> FALSE]]

\* Trace with the slow-query test ahead of the error test
TraceLevel_SlowFirst(config, elapsed, err) ==
    IF elapsed > config.SlowThreshold /\ config.SlowThreshold # 0
    THEN WarnLevel
    ELSE IF err # "nil" THEN ErrorLevel ELSE DebugLevel

\* the severity Trace emits at, from its if / else if / else
TraceLevel(config, elapsed, err) ==
    IF err # "nil" THEN ErrorLevel
    ELSE IF elapsed > config.SlowThreshold /\ config.SlowThreshold # 0
         THEN WarnLevel
         ELSE DebugLevel

\* the gate of Trace: the body runs when it holds
TraceEnabled(config) == config.LogLevel > 0

\* the gates of GormLogger.Info, Warn, Error
InfoEnabled(config) == config.LogLevel >= logger_Info
WarnEnabled(config) == config.LogLevel >= logger_Warn
ErrorEnabled(config) == config.LogLevel >= logger_Error

\* l.zapLogger.Sugar().Xf(...): the call, then what zap does with it
Emit(l, lvl) ==
    LET r == SugaredLog(Sugar(l.zapLogger), lvl)
    IN  [ret |-> r.ret, events |-> <<Event("emit", lvl, NoFile)>> \o r.events]

\* GormLogger.Trace(ctx, begin, fc, err)
TraceCall(l, elapsed, err) ==
    IF TraceEnabled(l.config)
    THEN LET r == Emit(l, TraceLevel(l.config, elapsed, err))
         IN  [ret |-> r.ret, events |-> <<Event("fc", 0, NoFile)>> \o r.events]
    ELSE [ret |-> "return", events |-> <<>>]

NewGormLogger ==
    /\ alive
    /\ variant = "part_002"
    /\ IF Logger = nil
       THEN /\ lastCall' = Call("NewGormLogger", 0, 0, "nil", "panic", <<>>)
            /\ alive' \in BOOLEAN
            /\ UNCHANGED gormLogger
       ELSE /\ lastCall' = Call("NewGormLogger", 0, 0, "nil", "return", <<>>)
            /\ gormLogger' = <<NewGormLoggerValue(Logger)>>
            /\ UNCHANGED alive
    /\ UNCHANGED <<variant, loopvarShared, now, dirs, files, backups, lumber, loggers, Logger,
                   SugaredLogger>>
    /\ UNCHANGED threads

\* a GormLogger value whose config fields are set directly (a composite
\* literal inside package logger): the receiver of the methods ranges
\* over the values of the type
GormLoggerLiteral ==
    /\ alive
    /\ variant = "part_002"
    /\ Logger # nil
    /\ \E st \in SlowThresholds, ll \in LogLevels, ig \in BOOLEAN :
          gormLogger' = <<[zapLogger |-> Logger,
                           config |-> [SlowThreshold |-> st, LogLevel |-> ll,
                                       IgnoreRecordNotFoundError |-> ig,
                                       Colorful |-> FALSE]]>>
    /\ lastCall' = Call("GormLogger", 0, 0, "nil", "return", <<>>)
    /\ UNCHANGED <<variant, loopvarShared, now, dirs, files, backups, lumber, loggers, Logger,
                   SugaredLogger, alive>>
    /\ UNCHANGED threads

\* GormLogger.LogMode(level); the persistence layer keeps the returned copy
LogMode ==
    /\ alive
    /\ gormLogger # nil
    /\ \E level \in LogLevels :
          /\ gormLogger' = [gormLogger EXCEPT ![1].config.LogLevel = level]
          /\ lastCall' = Call("LogMode", level, 0, "nil", "return", <<>>)
    /\ UNCHANGED <<variant, loopvarShared, now, dirs, files, backups, lumber, loggers, Logger,
                   SugaredLogger, alive>>
    /\ UNCHANGED threads

\* a method of the adapter called with a message whose entry has length
\* len, while fewer than `budget` entries are on disk
GormCallOf(op, enabled, lvl, len, budget) ==
    /\ alive
    /\ gormLogger # nil
    /\ Written < budget
    /\ LET r == IF enabled THEN Emit(gormLogger[1], lvl)
                ELSE [ret |-> "return", events |-> <<>>]
       IN  /\ lastCall' = Call(op, lvl, 0, "nil", r.ret, r.events)
           /\ Effects(gormLogger[1].zapLogger[1], r.ret, r.events, len)
    /\ UNCHANGED <<variant, loopvarShared, now, loggers, Logger, SugaredLogger,
                   gormLogger>>
    /\ UNCHANGED threads

\* a method of the adapter called with a message of one unit
GormCall(op, enabled, lvl) == GormCallOf(op, enabled, lvl, 1, MaxEntries)

GormLogger_Info ==
    GormCall("GormLogger.Info", InfoEnabled(gormLogger[1].config), InfoLevel)
GormLogger_Warn ==
    GormCall("GormLogger.Warn", WarnEnabled(gormLogger[1].config), WarnLevel)
GormLogger_Error ==
    GormCall("GormLogger.Error", ErrorEnabled(gormLogger[1].config), ErrorLevel)

Trace ==
    /\ alive
    /\ gormLogger # nil
    /\ WriteBudget
    /\ \E elapsed \in Elapsed, err \in Errs :
          LET r == TraceCall(gormLogger[1], elapsed, err)
          IN  /\ lastCall' = Call("Trace", 0, elapsed, err, r.ret, r.events)
              /\ Effects(gormLogger[1].zapLogger[1], r.ret, r.events, 1)
    /\ UNCHANGED <<variant, loopvarShared, now, loggers, Logger, SugaredLogger,
                   gormLogger>>
    /\ UNCHANGED threads

\* the clock passes an hour mark
Tick ==
    /\ alive
    /\ now < MaxHour
    /\ now' = now + 1
    /\ UNCHANGED <<variant, loopvarShared, dirs, files, backups, lumber, loggers, Logger, SugaredLogger,
                   gormLogger, lastCall, alive>>
    /\ UNCHANGED threads

Init ==
    /\ variant \in Variants
    /\ loopvarShared \in BOOLEAN
    /\ now = 0
    /\ dirs = {}
    /\ files = <<>>
    /\ backups = <<>>
    /\ lumber = <<>>
    /\ loggers = <<>>
    /\ Logger = nil
    /\ SugaredLogger = nil
    /\ gormLogger = nil
    /\ lastCall = Call("none", 0, 0, "nil", "nil", <<>>)
    /\ alive = TRUE
    /\ pc = [t \in Threads |-> Idle]
    /\ mu = {}
    /\ overlapped = FALSE

\* the application: initialisation and the leveled writes
Next ==
    \/ InitLogger
    \/ Tick
    \/ Debug \/ Debugf \/ Info \/ Infof \/ Warn \/ Warnf
    \/ Error \/ Errorf \/ DPanic \/ DPanicf
    \/ Panic \/ Panicf \/ Fatal \/ Fatalf
    \/ GetLogger

Spec == Init /\ [][Next]_vars

\* the persistence layer: initialisation and the trace hook of part_002
InitGorm == Init /\ variant = "part_002"

\* adapters built through the exported functions only
NextGorm ==
    \/ InitLogger
    \/ NewGormLogger \/ LogMode
    \/ GormLogger_Info \/ GormLogger_Warn \/ GormLogger_Error
    \/ Trace

SpecGorm == InitGorm /\ [][NextGorm]_vars

\* the methods applied to every value of the receiver's type
NextGormValues ==
    \/ InitLogger
    \/ NewGormLogger \/ GormLoggerLiteral \/ LogMode
    \/ GormLogger_Info \/ GormLogger_Warn \/ GormLogger_Error
    \/ Trace

SpecGormValues == InitGorm /\ [][NextGormValues]_vars

\* the lengths of the encoded entries: a short one, one that nearly fills
\* a file, and one that is longer than a file may get
EntryLens == {1, megabyte - 1, megabyte + 1}

\* InitLogger called again within a run
ReInitLogger == InitLoggerUpTo(MaxReInit)

\* Warn and GormLogger.Warn with messages of every length
Warn_Len ==
    \E len \in EntryLens : LeveledWriteOf("Warn", WarnLevel, len, MaxRotateEntries)
GormLogger_Warn_Len ==
    \E len \in EntryLens :
        GormCallOf("GormLogger.Warn", WarnEnabled(gormLogger[1].config),
                   WarnLevel, len, MaxRotateEntries)

\* the Warn sink of the lumberjack copies under writes of every length:
\* the facade writes through the installed logger, the adapter through
\* the logger it was built with
InitRotate == Init /\ variant \in {"part_001", "part_002"}

NextRotate ==
    \/ ReInitLogger
    \/ NewGormLogger
    \/ Warn_Len
    \/ GormLogger_Warn_Len

SpecRotate == InitRotate /\ [][NextRotate]_vars

----------------------------------------------------------------------------
(* Threads: a leveled write step by step.                                  *)

\* the calls that threads are inside of
InFlight == Cardinality({t \in Threads : pc[t] # Idle})

\* the lumberjack.Logger a thread is writing to, and its writer
Key(t) == [logger |-> pc[t].n, file |-> Head(pc[t].todo)]
Sink(t) == SinkOf(pc[t].n, Head(pc[t].todo))

\* the entry a thread is writing
Entry(t) == [level |-> pc[t].call.level, size |-> pc[t].len]

\* a thread is between l.mu.Lock() and l.mu.Unlock()
InCS(t) == pc[t].at \in {"prepare", "write", "unlock"}

\* a facade function called by thread t with a message whose entry has
\* length len: the nil test and zap's level check; the entry is then
\* written to the accepting cores, one after the other
WriteCall(t, op, lvl) ==
    /\ alive
    /\ variant # "logger_go"
    /\ pc[t] = Idle
    /\ Written + InFlight < MaxConcEntries
    /\ \E len \in EntryLens :
          LET r == FacadeCall(lvl)
              call == Call(op, lvl, 0, "nil", r.ret, r.events)
              w == SelectSeq(r.events, LAMBDA e : e.kind = "write")
          IN  IF w = <<>>
              THEN /\ lastCall' = call
                   /\ Effects(BaseOf(SugaredLogger), r.ret, r.events, len)
                   /\ UNCHANGED pc
              ELSE /\ pc' = [pc EXCEPT ![t] =
                               [at |-> "lock", n |-> BaseOf(SugaredLogger),
                                todo |-> [i \in 1..Len(w) |-> w[i].file],
                                len |-> len, call |-> call]]
                   /\ UNCHANGED <<lastCall, alive, dirs, files, backups, lumber>>
    /\ UNCHANGED <<variant, loopvarShared, now, loggers, Logger, SugaredLogger,
                   gormLogger, mu, overlapped>>

\* a lumberjack.Logger whose Write takes no mutex
muFree_Unlocked(key) == TRUE

\* l.mu.Lock() returns when no thread holds the mutex of the Logger
muFree(key) == key \notin mu

\* (*lumberjack.Logger).Write: l.mu.Lock()
Lock(t) ==
    /\ alive
    /\ pc[t].at = "lock"
    /\ muFree(Key(t))
    /\ mu' = mu \cup {Key(t)}
    /\ pc' = [pc EXCEPT ![t].at = "prepare"]
    /\ UNCHANGED <<variant, loopvarShared, now, dirs, files, backups, lumber,
                   loggers, Logger, SugaredLogger, gormLogger, lastCall, alive,
                   overlapped>>

\* Write, under the mutex: the length test, the open, the size check and
\* the rotation
PrepareStep(t) ==
    /\ alive
    /\ pc[t].at = "prepare"
    /\ IF pc[t].len > max(Sink(t))
       THEN /\ pc' = [pc EXCEPT ![t].at = "unlock"]
            /\ UNCHANGED <<dirs, files, backups, lumber>>
       ELSE LET st == Prepare(Disk, Key(t), Sink(t), pc[t].len)
            IN  /\ files' = st.files
                /\ backups' = st.backups
                /\ lumber' = st.lumber
                /\ dirs' = dirs \cup {f.dir : f \in DOMAIN st.files}
                /\ pc' = [pc EXCEPT ![t].at = "write"]
    /\ UNCHANGED <<variant, loopvarShared, now, loggers, Logger, SugaredLogger,
                   gormLogger, lastCall, alive, mu, overlapped>>

\* Write, under the mutex: l.file.Write(p) and l.size += n
WriteStep(t) ==
    /\ alive
    /\ pc[t].at = "write"
    /\ LET st == FileWrite(Disk, Key(t), Entry(t))
       IN  /\ files' = st.files
           /\ backups' = st.backups
           /\ lumber' = st.lumber
    /\ pc' = [pc EXCEPT ![t].at = "unlock"]
    /\ UNCHANGED <<variant, loopvarShared, now, dirs, loggers, Logger,
                   SugaredLogger, gormLogger, lastCall, alive, mu, overlapped>>

\* Write: the deferred l.mu.Unlock(); then the next accepting core, or the
\* end of the call
Unlock(t) ==
    /\ alive
    /\ pc[t].at = "unlock"
    /\ mu' = mu \ {Key(t)}
    /\ IF Len(pc[t].todo) > 1
       THEN /\ pc' = [pc EXCEPT ![t].at = "lock", ![t].todo = Tail(@)]
            /\ UNCHANGED <<lastCall, alive>>
       ELSE /\ pc' = [pc EXCEPT ![t] = Idle]
            /\ lastCall' = pc[t].call
            /\ CASE pc[t].call.ret = "exit"  -> alive' = FALSE
                 [] pc[t].call.ret = "panic" -> alive' \in BOOLEAN
                 [] OTHER                    -> alive' = TRUE
    /\ UNCHANGED <<variant, loopvarShared, now, dirs, files, backups, lumber,
                   loggers, Logger, SugaredLogger, gormLogger, overlapped>>

\* threads that call Warn and Error on the installed logger
WarnCall == \E t \in Threads : WriteCall(t, "Warn", WarnLevel)
ErrorCall == \E t \in Threads : WriteCall(t, "Error", ErrorLevel)
LockStep == \E t \in Threads : Lock(t)
SizeCheck == \E t \in Threads : PrepareStep(t)
FileWriteStep == \E t \in Threads : WriteStep(t)
UnlockStep == \E t \in Threads : Unlock(t)

\* InitLogger, of which one call succeeds: the threads write through the
\* one logger it installs
InitLoggerOnce == InitLoggerUpTo(1)

InitWriters == Init /\ variant \in {"part_001", "part_002"}

NextWriters ==
    \/ InitLoggerOnce
    \/ WarnCall \/ ErrorCall
    \/ LockStep \/ SizeCheck \/ FileWriteStep \/ UnlockStep

SpecWriters == InitWriters /\ [][NextWriters]_vars

----------------------------------------------------------------------------
(* Threads: InitLogger step by step.  Logger and SugaredLogger are package *)
(* variables that InitLogger assigns one after the other, with no lock.    *)

\* thread t is inside InitLogger, after its assignment of Logger
InInit(t) == pc[t].at \in {"sugar", "store"}

\* InitLogger up to and with `Logger = zap.New(...)`; an error return
\* comes before it and ends the call
InitLoggerAssign(t) ==
    /\ alive
    /\ pc[t] = Idle
    /\ \E configFile \in ConfigFiles, statErr \in BOOLEAN, mkdirOk \in BOOLEAN,
          openFailAt \in OpenFailures :
          LET r == InitLoggerCall(configFile, statErr, mkdirOk, openFailAt)
          IN  /\ Len(r.loggers) <= MaxReInit
              /\ loggers' = r.loggers
              /\ Logger' = r.Logger
              /\ dirs' = r.dirs
              /\ files' = r.files
              /\ IF r.err = "nil"
                 THEN /\ pc' = [pc EXCEPT ![t] =
                                  [at |-> "sugar", arg |-> configFile.state]]
                      /\ overlapped' =
                            (overlapped \/ \E u \in Threads \ {t} : InInit(u))
                      /\ UNCHANGED lastCall
                 ELSE /\ lastCall' = Call("InitLogger", 0, 0, configFile.state,
                                          r.err, <<>>)
                      /\ UNCHANGED <<pc, overlapped>>
    /\ UNCHANGED <<variant, loopvarShared, now, backups, lumber, SugaredLogger,
                   gormLogger, alive, mu>>

\* Logger.Sugar(), on the Logger the package variable holds at that time
InitLoggerSugar(t) ==
    /\ alive
    /\ pc[t].at = "sugar"
    /\ pc' = [pc EXCEPT ![t] = [at |-> "store", arg |-> pc[t].arg,
                                s |-> Sugar(Logger)]]
    /\ UNCHANGED <<variant, loopvarShared, now, dirs, files, backups, lumber,
                   loggers, Logger, SugaredLogger, gormLogger, lastCall, alive,
                   mu, overlapped>>

\* an InitLogger that leaves SugaredLogger as it was
Sugared_Kept(t) == SugaredLogger

\* the value InitLogger assigns to SugaredLogger
Sugared(t) == pc[t].s

\* `SugaredLogger = ...` and return nil
InitLoggerStore(t) ==
    /\ alive
    /\ pc[t].at = "store"
    /\ SugaredLogger' = Sugared(t)
    /\ lastCall' = Call("InitLogger", 0, 0, pc[t].arg, "nil", <<>>)
    /\ pc' = [pc EXCEPT ![t] = Idle]
    /\ UNCHANGED <<variant, loopvarShared, now, dirs, files, backups, lumber,
                   loggers, Logger, gormLogger, alive, mu, overlapped>>

InitLoggerBegin == \E t \in Threads : InitLoggerAssign(t)
InitLoggerMid == \E t \in Threads : InitLoggerSugar(t)
InitLoggerEnd == \E t \in Threads : InitLoggerStore(t)

\* threads that call InitLogger while others call InitLogger, Warn or
\* GetLogger
NextInit ==
    \/ InitLoggerBegin \/ InitLoggerMid \/ InitLoggerEnd
    \/ Warn
    \/ GetLogger

SpecInit == Init /\ [][NextInit]_vars

----------------------------------------------------------------------------
(* Properties.                                                             *)

\* the events of one kind of the last call, in order
EventsOf(kind) == SelectSeq(lastCall.events, LAMBDA e : e.kind = kind)

\* the receiver of the last adapter call
cfg == gormLogger[1].config

C2_TraceClassification ==
    (lastCall.op = "Trace" /\ cfg.LogLevel > 0) =>
        /\ Len(EventsOf("emit")) = 1
        /\ lastCall.arg # "nil" => EventsOf("emit")[1].level = ErrorLevel
        /\ (lastCall.arg = "nil" /\ cfg.SlowThreshold # 0
              /\ lastCall.elapsed > cfg.SlowThreshold)
               => EventsOf("emit")[1].level = WarnLevel
        /\ (lastCall.arg = "nil"
              /\ (cfg.SlowThreshold = 0 \/ lastCall.elapsed <= cfg.SlowThreshold))
               => EventsOf("emit")[1].level = DebugLevel

\* a slow query without error was traced at Warn
C2_Witness ==
    /\ lastCall.op = "Trace"
    /\ lastCall.arg = "nil"
    /\ lastCall.elapsed > cfg.SlowThreshold
    /\ cfg.SlowThreshold = DefaultSlowThreshold
    /\ EventsOf("emit") = <<Event("emit", WarnLevel, NoFile)>>

\* C3: with IgnoreRecordNotFoundError set, a Trace call whose err is the
\* record-not-found error emits nothing at Error: it emits at Warn when the
\* query was slow and at Debug otherwise.
C3_IgnoreNotFound ==
    (lastCall.op = "Trace" /\ cfg.LogLevel > 0
        /\ cfg.IgnoreRecordNotFoundError
        /\ lastCall.arg = "ErrRecordNotFound") =>
        \A i \in 1..Len(lastCall.events) :
            lastCall.events[i].kind = "emit"
                => lastCall.events[i].level # ErrorLevel

\* C4: at log level Silent (or below) Trace returns at once: fc is not
\* called and nothing is emitted.
C4_TraceDisabledGate ==
    (lastCall.op = "Trace" /\ cfg.LogLevel <= logger_Silent) =>
        lastCall.events = <<>>

\* C5: Trace emits a slow-query entry at Warn only when the adapter's log
\* level permits Warn.
C5_SlowWarnLevelGated ==
    (lastCall.op = "Trace" /\ EventsOf("emit") # <<>>
        /\ EventsOf("emit")[1].level = WarnLevel) =>
        cfg.LogLevel >= logger_Warn

\* a step that is a call of one of the fourteen leveled writes
LeveledWriteStep ==
    \/ Debug \/ Debugf \/ Info \/ Infof \/ Warn \/ Warnf
    \/ Error \/ Errorf \/ DPanic \/ DPanicf
    \/ Panic \/ Panicf \/ Fatal \/ Fatalf

\* C6: InitLogger called with a missing or unreadable config file returns
\* nil and installs a logger built from the default settings (format json,
\* directory ./logs, capital level text, 7-day retention).
C6_FallbackOnMissingConfig ==
    [][(InitLogger /\ lastCall'.arg = "missing") =>
          /\ lastCall'.ret = "nil"
          /\ Logger' # nil
          /\ SugaredLogger' = Sugar(Logger')
          /\ loggers'[Logger'[1]].core = setupCores(getDefaultConfig, 0).cores
          /\ getDefaultConfig.Level = "info"
          /\ getDefaultConfig.Format = "json"
          /\ getDefaultConfig.Director = "./logs"
          /\ getDefaultConfig.EncodeLevel = "capital"
          /\ getDefaultConfig.RetentionDay = 7
          /\ getDefaultConfig.LogInConsole]_vars

\* C7: InitLogger called with a config file that is present but cannot be
\* parsed or decoded returns an error and installs nothing.
C7_MalformedIsHardError ==
    [][(InitLogger /\ lastCall'.arg \in {"unparseable", "undecodable"}) =>
          /\ lastCall'.ret # "nil"
          /\ loggers' = loggers
          /\ Logger' = Logger
          /\ SugaredLogger' = SugaredLogger]_vars

\* C8: an InitLogger call that returns an error leaves Logger and
\* SugaredLogger as they were before the call, and the installed logger
\* always has all seven cores.
C8_AtomicInitFailure ==
    [][/\ (InitLogger /\ lastCall'.ret # "nil") =>
              /\ Logger' = Logger
              /\ SugaredLogger' = SugaredLogger
       /\ Logger' # nil => Len(loggers'[Logger'[1]].core) = Len(levels)]_vars

\* setupCores failed after it had created the files of some of the sinks,
\* and nothing is installed
C8_Witness ==
    /\ lastCall.op = "InitLogger"
    /\ lastCall.ret = "failed to create log file"
    /\ Cardinality(DOMAIN files) \in 1..(Len(levels) - 1)
    /\ Logger = nil
    /\ SugaredLogger = nil

C10_WriteBeforeInit ==
    [][(LeveledWriteStep /\ loggers = <<>>) =>
          /\ lastCall'.ret = "panic" \/ lastCall'.events = <<>>
          /\ loggers' = <<>>
          /\ Logger' = nil
          /\ SugaredLogger' = nil
          /\ files' = files
          /\ dirs' = dirs]_vars

\* Info was called with nothing installed and dereferenced the nil
\* SugaredLogger
C10_Witness ==
    /\ lastCall.op = "Info"
    /\ lastCall.ret = "panic"
    /\ lastCall.events = <<Event("nilDeref", InfoLevel, NoFile)>>
    /\ loggers = <<>>
    /\ files = <<>>

----------------------------------------------------------------------------
(* Rotation of the lumberjack sinks.                                       *)

\* the files at names lumberjack writers were built for
SizeCapped(f) == f.stamp # NoStamp

\* the size cap of the sinks getLogWriter builds: MaxSize 1, in megabytes
Cap == max(getLogWriter(getDefaultConfig, "", TRUE).writer)

RotateWriteStep == Warn_Len \/ GormLogger_Warn_Len

----------------------------------------------------------------------------
(* Concurrent writers.                                                     *)

\* the lumberjack.Logger objects that have opened file f
WritersOf(f) == {k \in DOMAIN lumber : k.file = f}

\* the lumberjack.Logger objects that have opened file f or that a thread
\* is writing to f through
SinksAt(f) ==
    WritersOf(f) \cup {Key(t) : t \in {u \in Threads : pc[u] # Idle /\ Key(u).file = f}}

\* the content of the file a lumberjack.Logger has open
OpenFile(st, key) ==
    IF IsActive(st, key) THEN st.files[key.file]
    ELSE st.backups[key.file][st.lumber[key].gen + 1]

\* C12: among the threads that write through one lumberjack.Logger at most
\* one is between Lock and Unlock; while a thread is between its size
\* check and its write no other thread's step changes the size the sink
\* has counted or the file it has open, nor, when every writer of the file
\* uses that logger, the content of the file or its backups; the write
\* appends the whole entry to the end of the sink's open file; and a file
\* that one sink writes to is never larger than the cap and has the size
\* the sink has counted.
C12_PerSinkSerialization ==
    [][/\ \A t1, t2 \in Threads :
             (t1 # t2 /\ InCS(t1)' /\ InCS(t2)') => Key(t1)' # Key(t2)'
       /\ \A t \in Threads :
             (pc[t].at = "write" /\ pc'[t] = pc[t]) =>
                 /\ lumber'[Key(t)] = lumber[Key(t)]
                 /\ SinksAt(Key(t).file) = {Key(t)} =>
                       /\ OpenFile(Disk, Key(t))' = OpenFile(Disk, Key(t))
                       /\ Backups(Disk, Key(t).file)' = Backups(Disk, Key(t).file)
       /\ \A t \in Threads :
             (pc[t].at = "write" /\ pc'[t] # pc[t]) =>
                 OpenFile(Disk, Key(t))' = Append(OpenFile(Disk, Key(t)), Entry(t))
       /\ \A f \in DOMAIN files' : \A k \in WritersOf(f)' :
             WritersOf(f)' = {k} =>
                 /\ Size(files'[f]) <= Cap
                 /\ lumber'[k].size = Size(files'[f])]_vars

\* one thread is about to write a Warn entry to the file while the other,
\* with a Warn entry for the same sink, waits for the mutex
C12_Witness ==
    \E t1, t2 \in Threads :
        /\ pc[t1].at = "write"
        /\ pc[t2].at = "lock"
        /\ Key(t1) = Key(t2)
        /\ pc[t1].call.op = "Warn"
        /\ pc[t2].call.op = "Warn"
        /\ Key(t1) \in mu

----------------------------------------------------------------------------
(* The pair of package variables.                                          *)

\* Logger and SugaredLogger are both nil, or SugaredLogger wraps Logger
PairConsistent ==
    IF Logger = nil THEN SugaredLogger = nil ELSE SugaredLogger = Sugar(Logger)

\* C13: in every state in which a leveled write or GetLogger runs, whatever
\* InitLogger calls came before or are in progress, Logger and
\* SugaredLogger are both nil or SugaredLogger is the sugared form of
\* Logger.
C13_HandlePairConsistency ==
    [][(Warn \/ GetLogger) => PairConsistent]_vars

\* C13, amended: as long as no two InitLogger calls have run at the same
\* time, Logger and SugaredLogger are both nil or SugaredLogger is the
\* sugared form of Logger in every state in which no InitLogger call is
\* between its two assignments; while a call is between them, Logger is
\* the logger that call built and SugaredLogger is still the one of the
\* call before (nil in the first call).
C13_PairConsistentBetweenCalls ==
    ~overlapped =>
        /\ (\A t \in Threads : ~InInit(t)) => PairConsistent
        /\ (\E t \in Threads : InInit(t)) =>
              /\ Logger = <<Len(loggers)>>
              /\ SugaredLogger = IF Len(loggers) = 1 THEN nil
                                 ELSE Sugar(<<Len(loggers) - 1>>)

\* a leveled write or GetLogger ran after a second InitLogger call, made
\* after the first had returned, had replaced both handles
C13_Witness ==
    /\ ~overlapped
    /\ \A t \in Threads : ~InInit(t)
    /\ Len(loggers) = MaxReInit
    /\ Logger = <<Len(loggers)>>
    /\ SugaredLogger = Sugar(Logger)
    /\ lastCall.op \in {"Warn", "GetLogger"}

====
